---------------------------- MODULE Spec2Model ----------------------------
(***************************************************************************)
(* A model of the code of the moim monorepo guides: the Zod schemas, the   *)
(* NestJS validation pipe and controller, the backend environment          *)
(* validation, the mobile API clients, the sign-up form and the mobile     *)
(* Babel configuration.                                                    *)
(*                                                                         *)
(* JavaScript strings that the code inspects character by character        *)
(* (emails, passwords, PORT, names) are sequences of one-character         *)
(* strings; strings of which only the length or the identity matters are   *)
(* TLA+ strings.  A JavaScript object is a function from its own keys to   *)
(* their values: a key that is not in the DOMAIN is an absent property.    *)
(***************************************************************************)
EXTENDS Integers, Sequences, FiniteSets, TLC

VARIABLES
    \* backend: POST /users through ZodValidationPipe
    schema,         \* the schema the controller's pipe was constructed with
    request,        \* the request body
    response,       \* what the request came to
    serviceCalls,   \* the arguments usersService.create was called with
    \* the guide's jest test of userSchema
    testSchema, testInput, testResult,
    \* backend: validateEnv
    processEnv, envOutcome,
    \* console.error lines (validateEnv, getUserSafe)
    console,
    \* mobile: babel.config.js
    shellEnv, dotenvPath,
    \* mobile: userApi / authApi
    call,           \* the API function called and its arguments
    pc,             \* where the call stands
    requests,       \* the HTTP requests axios has sent
    httpResponse,   \* what axios came back with
    outcome,        \* what the call returned or threw
    \* mobile: SignupScreen
    formValues, formErrors, submitCount, onSubmitCalls

pipeVars   == <<schema, request, response, serviceCalls>>
testVars   == <<testSchema, testInput, testResult>>
envVars    == <<processEnv, envOutcome>>
babelVars  == <<shellEnv, dotenvPath>>
apiVars    == <<call, pc, requests, httpResponse, outcome>>
formVars   == <<formValues, formErrors, submitCount, onSubmitCalls>>
vars == <<schema, request, response, serviceCalls, testSchema, testInput,
          testResult, processEnv, envOutcome, console, shellEnv, dotenvPath,
          call, pc, requests, httpResponse, outcome, formValues, formErrors, submitCount,
          onSubmitCalls>>

-----------------------------------------------------------------------------
(* Strings *)

Seqs(S, n) == UNION {[1..k -> S] : k \in 0..n}

RECURSIVE Rep(_, _)
Rep(c, n) == IF n = 0 THEN <<>> ELSE <<c>> \o Rep(c, n - 1)

Has(o, k) == k \in DOMAIN o

LowerChars == {"a","b","c","d","e","f","g","h","i","j","k","l","m",
               "n","o","p","q","r","s","t","u","v","w","x","y","z"}
UpperChars == {"A","B","C","D","E","F","G","H","I","J","K","L","M",
               "N","O","P","Q","R","S","T","U","V","W","X","Y","Z"}
DigitChars == {"0","1","2","3","4","5","6","7","8","9"}
\* what "." of a regular expression without the s flag does not match
LineTerminators == {"\n", "\r"}

\* the lookahead (?=.*[class]) tried at the start of the string: some
\* character of the class with no line terminator before it
LookaheadDotStar(s, class) ==
    \E i \in 1..Len(s) :
        /\ s[i] \in class
        /\ \A j \in 1..(i - 1) : s[j] \notin LineTerminators

\* /[class]/.test(val)
TestClass(s, class) == \E i \in 1..Len(s) : s[i] \in class

-----------------------------------------------------------------------------
(* Zod's string checks *)

AlnumChars == LowerChars \cup UpperChars \cup DigitChars
EmailLocalChars == AlnumChars \cup {"_", "'", "+", "-", "."}
EmailLocalLast  == AlnumChars \cup {"_", "+", "-"}

\* ([A-Z0-9][A-Z0-9\-]*\.)+[A-Z]{2,}$  (case-insensitive)
IsEmailDomain(d) ==
    \E dot \in 1..Len(d) :
        /\ d[dot] = "."
        /\ Len(d) - dot >= 2
        /\ \A i \in (dot + 1)..Len(d) : d[i] \in LowerChars \cup UpperChars
        /\ d[1] \in AlnumChars
        /\ \A i \in 1..dot :
              /\ d[i] \in AlnumChars \cup {"-", "."}
              /\ (d[i] = "." /\ i < dot) => d[i + 1] \in AlnumChars

\* z.string().email():
\* /^(?!\.)(?!.*\.\.)([A-Z0-9_'+\-\.]*)[A-Z0-9_+-]@([A-Z0-9][A-Z0-9\-]*\.)+[A-Z]{2,}$/i
IsEmail(s) ==
    \E at \in 1..Len(s) :
        /\ s[at] = "@"
        /\ at >= 2
        /\ s[1] # "."
        /\ \A i \in 1..(Len(s) - 1) : ~(s[i] = "." /\ s[i + 1] = ".")
        /\ \A i \in 1..(at - 2) : s[i] \in EmailLocalChars
        /\ s[at - 1] \in EmailLocalLast
        /\ IsEmailDomain(SubSeq(s, at + 1, Len(s)))

\* z.string().datetime(): an ISO 8601 date and time in UTC
IsDatetime(s) == s \in {"2025-01-01T00:00:00Z", "2025-06-30T12:34:56.789Z"}

\* z.string().uuid()
IsUuid(s) == s \in {"550e8400-e29b-41d4-a716-446655440000"}

Issue(path, code) == <<[path |-> path, code |-> code]>>
Ok(data)          == [success |-> TRUE, data |-> data]
Fail(issues)      == [success |-> FALSE, error |-> [issues |-> issues]]
\* an object schema without .strict() or .passthrough() drops unknown keys
Strip(v, keys)    == [k \in (DOMAIN v) \cap keys |-> v[k]]
Result(v, keys, issues) ==
    IF issues = <<>> THEN Ok(Strip(v, keys)) ELSE Fail(issues)

-----------------------------------------------------------------------------
(* Backend: create-user.dto.ts, zod-validation.pipe.ts, users.controller.ts *)

NameMin     == 2
NameMax     == 50
PasswordMin == 8
AgeMin      == 0
AgeMax      == 150

RequiredOr(v, k, issues) ==
    IF Has(v, k) THEN issues ELSE Issue(<<k>>, "invalid_type")

\* .min(8).regex(/^(?=.*[a-z])(?=.*[A-Z])(?=.*\d)/): every check of a string
\* runs, and each failing one adds its issue
BackendPasswordIssues(p) ==
    (IF Len(p) < PasswordMin THEN Issue(<<"password">>, "too_small") ELSE <<>>)
    \o (IF /\ LookaheadDotStar(p, LowerChars)
           /\ LookaheadDotStar(p, UpperChars)
           /\ LookaheadDotStar(p, DigitChars)
        THEN <<>> ELSE Issue(<<"password">>, "invalid_string"))

NameIssues(n) ==
    (IF Len(n) < NameMin THEN Issue(<<"name">>, "too_small") ELSE <<>>)
    \o (IF Len(n) > NameMax THEN Issue(<<"name">>, "too_big") ELSE <<>>)

EmailIssues(e) ==
    IF IsEmail(e) THEN <<>> ELSE Issue(<<"email">>, "invalid_string")

\* z.number().int().min(0).max(150).optional()
AgeIssues(v) ==
    IF ~Has(v, "age") THEN <<>>
    ELSE (IF v.age < AgeMin THEN Issue(<<"age">>, "too_small") ELSE <<>>)
         \o (IF v.age > AgeMax THEN Issue(<<"age">>, "too_big") ELSE <<>>)

\* apps/backend/src/modules/users/dto/create-user.dto.ts
BackendCreateUserSchema(v) ==
    Result(v, {"email", "name", "password", "age"},
           RequiredOr(v, "email", EmailIssues(v.email))
           \o RequiredOr(v, "name", NameIssues(v.name))
           \o RequiredOr(v, "password", BackendPasswordIssues(v.password))
           \o AgeIssues(v))

\* packages/shared-types: userSchema.pick({email, name}).extend({password})
SharedCreateUserSchema(v) ==
    Result(v, {"email", "name", "password"},
           RequiredOr(v, "email", EmailIssues(v.email))
           \o RequiredOr(v, "name", NameIssues(v.name))
           \o RequiredOr(v, "password",
                         IF Len(v.password) < PasswordMin
                         THEN Issue(<<"password">>, "too_small") ELSE <<>>))

\* the advanced section's passwordSchema: .min(8) and three .refine()s
passwordSchema(p) ==
    /\ Len(p) >= PasswordMin
    /\ TestClass(p, UpperChars)
    /\ TestClass(p, LowerChars)
    /\ TestClass(p, DigitChars)

createUserSchema(which, v) ==
    IF which = "backend" THEN BackendCreateUserSchema(v)
    ELSE SharedCreateUserSchema(v)

\* a bug the pipe could have: the value goes through whatever the schema said
TransformUnchecked(which, value) == [kind |-> "returned", value |-> value]

\* ZodValidationPipe.transform: schema.parse(value) returned, or its ZodError
\* rethrown as a BadRequestException
ZodValidationPipe_transform(which, value) ==
    LET r == createUserSchema(which, value)
    IN  IF r.success
        THEN [kind |-> "returned", value |-> r.data]
        ELSE [kind |-> "BadRequestException",
              payload |-> [message |-> "Validation failed",
                           errors |-> r.error.issues]]

\* UsersController.create behind @UsePipes(new ZodValidationPipe(...)): the
\* handler runs only with what the pipe returned
Create ==
    /\ response.kind = "pending"
    /\ LET t == ZodValidationPipe_transform(schema, request)
       IN  IF t.kind = "returned"
           THEN /\ serviceCalls' = Append(serviceCalls, t.value)
                /\ response' = [kind |-> "created", value |-> t.value]
           ELSE /\ serviceCalls' = serviceCalls
                /\ response' = t
    /\ UNCHANGED <<schema, request, testVars, envVars, console, babelVars,
                   apiVars, formVars>>

-----------------------------------------------------------------------------
(* The parts of the program a behaviour does not run stay as they start *)

IdlePipe  == /\ schema = "backend" /\ request = <<>>
             /\ response = [kind |-> "idle"] /\ serviceCalls = <<>>
IdleTest  == /\ testSchema = "none" /\ testInput = <<>>
             /\ testResult = [kind |-> "idle"]
IdleEnv   == /\ processEnv = <<>> /\ envOutcome = [kind |-> "idle"]
IdleBabel == /\ shellEnv = <<>> /\ dotenvPath = [kind |-> "idle"]
IdleApi   == /\ call = [fn |-> "none"] /\ pc = "idle" /\ requests = <<>>
             /\ httpResponse = [kind |-> "none"]
             /\ outcome = [kind |-> "idle"]
IdleForm  == /\ formValues = <<>> /\ formErrors = {} /\ submitCount = -1
             /\ onSubmitCalls = <<>>

-----------------------------------------------------------------------------
(* POST /users with request bodies of every shape *)

Email_ok      == <<"a", "@", "b", ".", "c", "o">>
Email_noAt    == <<"a", ".", "b", ".", "c", "o">>
Email_shortTld == <<"a", "@", "b", ".", "c">>
SampleEmails  == {Email_ok, Email_noAt, Email_shortTld, <<>>}

NameLens      == {NameMin - 1, NameMin, NameMax, NameMax + 1}
SampleNames   == {Rep("n", k) : k \in NameLens}

Pw_ok         == <<"a", "A", "1">> \o Rep("x", PasswordMin - 3)
Pw_short      == <<"a", "A", "1">> \o Rep("x", PasswordMin - 4)
Pw_lowerOnly  == Rep("x", PasswordMin)
Pw_newline    == <<"a", "\n", "A", "1">> \o Rep("x", PasswordMin - 4)
SamplePasswords == {Pw_ok, Pw_short, Pw_lowerOnly, Pw_newline}

SampleAges    == {AgeMin - 1, AgeMin, AgeMax, AgeMax + 1}

BodyKeys      == {"email", "name", "password", "age", "role"}

Body(K, e, n, p, a) ==
    [k \in K |-> CASE k = "email"    -> e
                   [] k = "name"     -> n
                   [] k = "password" -> p
                   [] k = "age"      -> a
                   [] OTHER          -> "admin"]

Bodies ==
    {Body(K, e, n, p, a) : K \in SUBSET BodyKeys, e \in SampleEmails,
                           n \in SampleNames, p \in SamplePasswords,
                           a \in SampleAges}

InitPipe ==
    /\ schema \in {"backend", "shared"}
    /\ request \in Bodies
    /\ response = [kind |-> "pending"]
    /\ serviceCalls = <<>>
    /\ IdleTest /\ IdleEnv /\ IdleBabel /\ IdleApi /\ IdleForm
    /\ console = <<>>

NextPipe == Create

SpecPipe == InitPipe /\ [][NextPipe]_vars

\* C1: the pipe returns the schema's parsed value when the schema accepts the
\* body and throws BadRequestException {message: 'Validation failed', errors:
\* the schema's issues} when it rejects it; usersService.create is only ever
\* called with a value the schema accepted.
PipeContract ==
    /\ response.kind # "pending" =>
          LET r == createUserSchema(schema, request)
          IN  IF r.success
              THEN /\ response = [kind |-> "created", value |-> r.data]
                   /\ serviceCalls = <<r.data>>
              ELSE /\ response.kind = "BadRequestException"
                   /\ response.payload.message = "Validation failed"
                   /\ response.payload.errors = r.error.issues
                   /\ serviceCalls = <<>>
    /\ \A i \in 1..Len(serviceCalls) :
          /\ createUserSchema(schema, request).success
          /\ createUserSchema(schema, serviceCalls[i]).success

PipeRejected ==
    /\ response.kind = "BadRequestException"
    /\ Len(response.payload.errors) >= 2
    /\ Has(request, "role")

-----------------------------------------------------------------------------
(* POST /users with every password over a small alphabet *)

MaxPwLen   == 8
PwAlphabet == {"a", "A", "1", "\n"}
Passwords  == Seqs(PwAlphabet, MaxPwLen)

InitPassword ==
    /\ schema = "backend"
    /\ request \in {Body({"email", "name", "password"}, Email_ok,
                         Rep("n", NameMin), p, AgeMin) : p \in Passwords}
    /\ response = [kind |-> "pending"]
    /\ serviceCalls = <<>>
    /\ IdleTest /\ IdleEnv /\ IdleBabel /\ IdleApi /\ IdleForm
    /\ console = <<>>

SpecPassword == InitPassword /\ [][NextPipe]_vars

\* C3: the password field of the backend createUserSchema accepts a string
\* exactly when it has at least 8 characters and holds a lowercase letter, an
\* uppercase letter and a digit at any positions, line breaks included.
PasswordAcceptedIffStrong ==
    response.kind # "pending" =>
        (response.kind = "created" <=> passwordSchema(request.password))

-----------------------------------------------------------------------------
(* The guide's three userSchema definitions and its jest test of userSchema *)

DatetimeOr(v, k) ==
    RequiredOr(v, k, IF IsDatetime(v[k]) THEN <<>>
                     ELSE Issue(<<k>>, "invalid_string"))

\* apps/mobile/src/api/schemas/user.schema.ts
MobileUserSchema(v) ==
    Result(v, {"id", "email", "name", "createdAt"},
           RequiredOr(v, "id", <<>>)
           \o RequiredOr(v, "email", EmailIssues(v.email))
           \o RequiredOr(v, "name", <<>>)
           \o DatetimeOr(v, "createdAt"))

\* packages/shared-types/src/schemas/user.schema.ts
SharedUserSchema(v) ==
    Result(v, {"id", "email", "name", "createdAt", "updatedAt"},
           RequiredOr(v, "id", IF IsUuid(v.id) THEN <<>>
                               ELSE Issue(<<"id">>, "invalid_string"))
           \o RequiredOr(v, "email", EmailIssues(v.email))
           \o RequiredOr(v, "name", NameIssues(v.name))
           \o DatetimeOr(v, "createdAt")
           \o DatetimeOr(v, "updatedAt"))

\* z.object({id, name}).merge(timestampSchema)
MergedUserSchema(v) ==
    Result(v, {"id", "name", "createdAt", "updatedAt"},
           RequiredOr(v, "id", <<>>)
           \o RequiredOr(v, "name", <<>>)
           \o DatetimeOr(v, "createdAt")
           \o DatetimeOr(v, "updatedAt"))

userSchema(which, v) ==
    CASE which = "mobile" -> MobileUserSchema(v)
      [] which = "shared" -> SharedUserSchema(v)
      [] OTHER            -> MergedUserSchema(v)

\* 'test@example.com', 'invalid-email', 'Test User', 'Test'
Email_test    == <<"t","e","s","t","@","e","x","a","m","p","l","e",".",
                   "c","o","m">>
Email_invalid == <<"i","n","v","a","l","i","d","-","e","m","a","i","l">>
Name_TestUser == <<"T","e","s","t"," ","U","s","e","r">>
Name_Test     == <<"T","e","s","t">>

UserObject(K, i, e, n, c, u) ==
    [k \in K |-> CASE k = "id"        -> i
                   [] k = "email"     -> e
                   [] k = "name"      -> n
                   [] k = "createdAt" -> c
                   [] OTHER           -> u]

Timestamps == {"2025-01-01T00:00:00Z", "2025-01-01"}

UserObjects ==
    {UserObject(K, i, e, n, c, u) :
        K \in SUBSET {"id", "email", "name", "createdAt", "updatedAt"},
        i \in {"123", "550e8400-e29b-41d4-a716-446655440000"},
        e \in {Email_test, Email_invalid, Email_ok},
        n \in {Name_TestUser, Name_Test},
        c \in Timestamps, u \in Timestamps}

\* const result = userSchema.safeParse({...})
SafeParseUser ==
    /\ testResult.kind = "pending"
    /\ testResult' = [kind |-> "done", result |-> userSchema(testSchema, testInput)]
    /\ UNCHANGED <<testSchema, testInput, pipeVars, envVars, console,
                   babelVars, apiVars, formVars>>

InitTest ==
    /\ testSchema \in {"mobile", "shared", "merged"}
    /\ testInput \in UserObjects
    /\ testResult = [kind |-> "pending"]
    /\ IdlePipe /\ IdleEnv /\ IdleBabel /\ IdleApi /\ IdleForm
    /\ console = <<>>

NextTest == SafeParseUser

SpecTest == InitTest /\ [][NextTest]_vars

\* C2: for an object with only id, email and name, userSchema.safeParse
\* reports success exactly when the email is well-formed, whichever userSchema
\* of the guide is used.
UserTestExpectation ==
    (testResult.kind = "done" /\ DOMAIN testInput = {"id", "email", "name"})
        => (testResult.result.success <=> IsEmail(testInput.email))

-----------------------------------------------------------------------------
(* Backend: env.validation.ts *)

PortMin      == 1
PortMax      == 65535
HostMin      == 1
DbNameMin    == 1
JwtSecretMin == 32

WhiteSpace == {" ", "\t", "\n", "\r"}

RECURSIVE TrimStart(_)
TrimStart(s) ==
    IF s # <<>> /\ Head(s) \in WhiteSpace THEN TrimStart(Tail(s)) ELSE s

RECURSIVE TrimEnd(_)
TrimEnd(s) ==
    IF s # <<>> /\ s[Len(s)] \in WhiteSpace
    THEN TrimEnd(SubSeq(s, 1, Len(s) - 1)) ELSE s

Digits == <<"0","1","2","3","4","5","6","7","8","9">>
DigitValue(c) == (CHOOSE i \in 1..Len(Digits) : Digits[i] = c) - 1

RECURSIVE DecimalValue(_)
DecimalValue(s) ==
    IF s = <<>> THEN 0
    ELSE 10 * DecimalValue(SubSeq(s, 1, Len(s) - 1)) + DigitValue(s[Len(s)])

NaN    == [isNaN |-> TRUE, n |-> 0]
Num(n) == [isNaN |-> FALSE, n |-> n]

\* Number(string), for strings of digits, signs, white space and characters
\* no numeric literal holds: white space is trimmed, the empty string is 0, a
\* signed run of decimal digits is its value, anything else is NaN
Number(s) ==
    LET t      == TrimEnd(TrimStart(s))
        signed == t # <<>> /\ t[1] \in {"+", "-"}
        body   == IF signed THEN Tail(t) ELSE t
    IN  IF t = <<>> THEN Num(0)
        ELSE IF body # <<>> /\ \A i \in 1..Len(body) : body[i] \in DigitChars
        THEN Num(IF t[1] = "-" THEN 0 - DecimalValue(body)
                 ELSE DecimalValue(body))
        ELSE NaN

\* a bug PORT's check could have: the upper bound left out
PortIssuesNoMax(n) ==
    IF n.isNaN THEN Issue(<<"PORT">>, "invalid_type")
    ELSE IF n.n < PortMin THEN Issue(<<"PORT">>, "too_small") ELSE <<>>

\* .pipe(z.number().min(1).max(65535)): z.number() does not take NaN
PortIssues(n) ==
    IF n.isNaN THEN Issue(<<"PORT">>, "invalid_type")
    ELSE (IF n.n < PortMin THEN Issue(<<"PORT">>, "too_small") ELSE <<>>)
         \o (IF n.n > PortMax THEN Issue(<<"PORT">>, "too_big") ELSE <<>>)

NodeEnvs == {"development", "production", "test"}

EnvIssues(env) ==
    RequiredOr(env, "NODE_ENV",
               IF env.NODE_ENV \in NodeEnvs THEN <<>>
               ELSE Issue(<<"NODE_ENV">>, "invalid_enum_value"))
    \o RequiredOr(env, "PORT", PortIssues(Number(env.PORT)))
    \o RequiredOr(env, "DATABASE_HOST",
                  IF Len(env.DATABASE_HOST) < HostMin
                  THEN Issue(<<"DATABASE_HOST">>, "too_small") ELSE <<>>)
    \o RequiredOr(env, "DATABASE_PORT", <<>>)
    \o RequiredOr(env, "DATABASE_NAME",
                  IF Len(env.DATABASE_NAME) < DbNameMin
                  THEN Issue(<<"DATABASE_NAME">>, "too_small") ELSE <<>>)
    \o RequiredOr(env, "JWT_SECRET",
                  IF Len(env.JWT_SECRET) < JwtSecretMin
                  THEN Issue(<<"JWT_SECRET">>, "too_small") ELSE <<>>)

\* envSchema.parse(process.env): the transforms applied, the default filled
\* in, the keys the schema does not name dropped
envSchema(env) ==
    IF EnvIssues(env) # <<>> THEN Fail(EnvIssues(env))
    ELSE Ok([NODE_ENV       |-> env.NODE_ENV,
             PORT           |-> Number(env.PORT),
             DATABASE_HOST  |-> env.DATABASE_HOST,
             DATABASE_PORT  |-> Number(env.DATABASE_PORT),
             DATABASE_NAME  |-> env.DATABASE_NAME,
             JWT_SECRET     |-> env.JWT_SECRET,
             JWT_EXPIRES_IN |-> IF Has(env, "JWT_EXPIRES_IN")
                                THEN env.JWT_EXPIRES_IN ELSE "1h"])

\* a bug validateEnv could have: the error logged and the raw environment
\* handed on
validateEnvLenient(env) ==
    LET r == envSchema(env)
    IN  IF r.success THEN [kind |-> "returned", value |-> r.data, log |-> <<>>]
        ELSE [kind |-> "returned", value |-> env, log |-> <<r.error.issues>>]

\* validateEnv: the parsed Env, or the issues logged and an Error thrown
validateEnv(env) ==
    LET r == envSchema(env)
    IN  IF r.success THEN [kind |-> "returned", value |-> r.data, log |-> <<>>]
        ELSE [kind |-> "Error", message |-> "Environment validation failed",
              log |-> <<r.error.issues>>]

\* main.ts: validateEnv()
ValidateEnv ==
    /\ envOutcome.kind = "pending"
    /\ LET o == validateEnv(processEnv)
       IN  /\ envOutcome' = o
           /\ console' = console \o o.log
    /\ UNCHANGED <<processEnv, pipeVars, testVars, babelVars, apiVars,
                   formVars>>


EnvKeys == {"NODE_ENV", "PORT", "DATABASE_HOST", "DATABASE_PORT",
            "DATABASE_NAME", "JWT_SECRET", "JWT_EXPIRES_IN"}
\* variables of the environment guide's example that envSchema does not name
ExtraKeys == {"DATABASE_USER", "DATABASE_PASSWORD", "CORS_ORIGIN", "LOG_LEVEL"}

Env(K, nodeEnv, port, host, dbPort, dbName, secret, expires) ==
    [k \in K \cup ExtraKeys |->
        CASE k = "NODE_ENV"          -> nodeEnv
          [] k = "PORT"              -> port
          [] k = "DATABASE_HOST"     -> host
          [] k = "DATABASE_PORT"     -> dbPort
          [] k = "DATABASE_NAME"     -> dbName
          [] k = "JWT_SECRET"        -> secret
          [] k = "JWT_EXPIRES_IN"    -> expires
          [] k = "DATABASE_USER"     -> "postgres"
          [] k = "DATABASE_PASSWORD" -> "your-password"
          [] k = "CORS_ORIGIN"       -> "http://localhost:3000"
          [] OTHER                   -> "debug"]

\* the Backend (.env.dev / .env.prod) block of the environment guide
ExampleEnv ==
    Env(EnvKeys, "development", <<"3", "0", "0", "0">>, "localhost",
        <<"5", "4", "3", "2">>, "moim_dev", "your-secret-key", "1h")

Secret32 == "0123456789abcdef0123456789abcdef"
Secret31 == "0123456789abcdef0123456789abcde"

SamplePorts == {<<"3", "0", "0", "0">>, <<"0">>, <<"6", "5", "5", "3", "5">>,
                <<"6", "5", "5", "3", "6">>, <<"h", "t", "t", "p">>, <<>>}

Envs ==
    {Env(K, ne, po, "localhost", dp, dn, se, ex) :
        K \in SUBSET EnvKeys,
        ne \in NodeEnvs \cup {"staging"},
        po \in SamplePorts,
        dp \in {<<"5", "4", "3", "2">>, <<"d", "b">>},
        dn \in {"moim_dev", ""},
        se \in {"your-secret-key", Secret31, Secret32},
        ex \in {"1h", "7d"}}
    \cup {Env(EnvKeys, "production", <<"3", "0", "0", "0">>, "",
              <<"5", "4", "3", "2">>, "moim", Secret32, "1h")}

InitEnv ==
    /\ processEnv \in Envs
    /\ envOutcome = [kind |-> "pending"]
    /\ console = <<>>
    /\ IdlePipe /\ IdleTest /\ IdleBabel /\ IdleApi /\ IdleForm

NextEnv == ValidateEnv

SpecEnv == InitEnv /\ [][NextEnv]_vars

\* C4: validateEnv returns an Env that satisfies envSchema (NODE_ENV one of
\* development/production/test, DATABASE_HOST and DATABASE_NAME non-empty,
\* JWT_SECRET of at least 32 characters, JWT_EXPIRES_IN '1h' when the variable
\* is absent), or throws Error('Environment validation failed'); nothing else.
ValidateEnvContract ==
    envOutcome.kind # "pending" =>
        \/ /\ envOutcome.kind = "Error"
           /\ envOutcome.message = "Environment validation failed"
        \/ /\ envOutcome.kind = "returned"
           /\ DOMAIN envOutcome.value = EnvKeys
           /\ EnvKeys \ {"JWT_EXPIRES_IN"} \subseteq DOMAIN processEnv
           /\ envOutcome.value.NODE_ENV = processEnv.NODE_ENV
           /\ envOutcome.value.NODE_ENV \in {"development", "production", "test"}
           /\ envOutcome.value.DATABASE_HOST = processEnv.DATABASE_HOST
           /\ Len(envOutcome.value.DATABASE_HOST) >= 1
           /\ envOutcome.value.DATABASE_NAME = processEnv.DATABASE_NAME
           /\ Len(envOutcome.value.DATABASE_NAME) >= 1
           /\ envOutcome.value.JWT_SECRET = processEnv.JWT_SECRET
           /\ Len(envOutcome.value.JWT_SECRET) >= 32
           /\ ~Has(processEnv, "JWT_EXPIRES_IN")
                 => envOutcome.value.JWT_EXPIRES_IN = "1h"

EnvReturnedWithDefault ==
    /\ envOutcome.kind = "returned"
    /\ ~Has(processEnv, "JWT_EXPIRES_IN")
    /\ envOutcome.value.JWT_EXPIRES_IN = "1h"

\* C10: validateEnv returns an Env for the environment guide's example
\* backend environment instead of throwing.
ExampleEnvAccepted ==
    (processEnv = ExampleEnv /\ envOutcome.kind # "pending")
        => envOutcome.kind = "returned"

-----------------------------------------------------------------------------
(* validateEnv with every PORT string over a small alphabet *)

MaxPortLen   == 5
PortAlphabet == {"0", "3", "5", "6", "-", " ", "z"}
Ports        == Seqs(PortAlphabet, MaxPortLen)

InitPort ==
    /\ processEnv \in
          {Env(EnvKeys, "production", po, "localhost", <<"5", "4", "3", "2">>,
               "moim", se, "1h") : po \in Ports, se \in {Secret31, Secret32}}
          \cup {Env(EnvKeys \ {"PORT"}, "production", <<>>, "localhost",
                    <<"5", "4", "3", "2">>, "moim", Secret32, "1h")}
    /\ envOutcome = [kind |-> "pending"]
    /\ console = <<>>
    /\ IdlePipe /\ IdleTest /\ IdleBabel /\ IdleApi /\ IdleForm

SpecPort == InitPort /\ [][NextEnv]_vars

\* C5: a returned Env's PORT is the numeric conversion of the PORT string and
\* lies in 1..65535; a PORT that is missing, converts to NaN, to less than 1
\* or to more than 65535 makes validateEnv throw.
PortContract ==
    envOutcome.kind # "pending" =>
        /\ envOutcome.kind = "returned" =>
              /\ Has(processEnv, "PORT")
              /\ envOutcome.value.PORT = Number(processEnv.PORT)
              /\ ~envOutcome.value.PORT.isNaN
              /\ envOutcome.value.PORT.n >= 1
              /\ envOutcome.value.PORT.n <= 65535
        /\ (\/ ~Has(processEnv, "PORT")
            \/ Number(processEnv.PORT).isNaN
            \/ Number(processEnv.PORT).n < 1
            \/ Number(processEnv.PORT).n > 65535) => envOutcome.kind = "Error"

PortReturnedAtMax ==
    /\ envOutcome.kind = "returned"
    /\ processEnv.PORT = <<"6", "5", "5", "3", "5">>
    /\ envOutcome.value.PORT = Num(65535)

-----------------------------------------------------------------------------
(* Mobile: babel.config.js *)

\* a path is the sequence of its dot-separated parts; '' is the empty sequence
EnvDev  == <<".env", ".dev">>
EnvProd == <<".env", ".prod">>

\* a bug the fallback could have: the production file as the default
PathProdDefault(env) ==
    IF Has(env, "ENV_FILE") /\ env.ENV_FILE # <<>> THEN env.ENV_FILE
    ELSE EnvProd

\* process.env.ENV_FILE || '.env.dev': undefined and '' are falsy
Path(env) ==
    IF Has(env, "ENV_FILE") /\ env.ENV_FILE # <<>> THEN env.ENV_FILE
    ELSE EnvDev

\* module.exports.plugins[0][1], the options of react-native-dotenv
DotenvOptions(env) ==
    [envName |-> "APP_ENV", moduleName |-> "@env", path |-> Path(env),
     safe |-> FALSE, allowUndefined |-> TRUE, verbose |-> FALSE]

\* cross-env ENV_FILE=<file> <command>: the development scripts name .env.dev,
\* the release builds .env.prod
CrossEnv ==
    /\ dotenvPath.kind = "pending"
    /\ \E file \in {EnvDev, EnvProd} :
          shellEnv' = [k \in DOMAIN shellEnv \cup {"ENV_FILE"} |->
                          IF k = "ENV_FILE" THEN file ELSE shellEnv[k]]
    /\ UNCHANGED <<dotenvPath, pipeVars, testVars, envVars, console, apiVars,
                   formVars>>

\* Babel evaluates babel.config.js
LoadBabelConfig ==
    /\ dotenvPath.kind = "pending"
    /\ dotenvPath' = [kind |-> "loaded", options |-> DotenvOptions(shellEnv)]
    /\ UNCHANGED <<shellEnv, pipeVars, testVars, envVars, console, apiVars,
                   formVars>>

MaxPathParts == 3
PathParts    == {".env", ".dev", ".prod", ".local"}
Paths        == Seqs(PathParts, MaxPathParts)

InitBabel ==
    /\ shellEnv \in {[k \in K |-> IF k = "ENV_FILE" THEN p ELSE "development"] :
                        K \in SUBSET {"ENV_FILE", "NODE_ENV"}, p \in Paths}
    /\ dotenvPath = [kind |-> "pending"]
    /\ console = <<>>
    /\ IdlePipe /\ IdleTest /\ IdleEnv /\ IdleApi /\ IdleForm

NextBabel == CrossEnv \/ LoadBabelConfig

SpecBabel == InitBabel /\ [][NextBabel]_vars

\* C6: the path handed to react-native-dotenv is the file ENV_FILE names, and
\* .env.dev when ENV_FILE is unset or empty; .env.prod is never selected
\* unless ENV_FILE names it.
DotenvPathFollowsEnvFile ==
    dotenvPath.kind = "loaded" =>
        /\ (Has(shellEnv, "ENV_FILE") /\ shellEnv.ENV_FILE = <<".env", ".dev">>)
              => dotenvPath.options.path = <<".env", ".dev">>
        /\ (Has(shellEnv, "ENV_FILE") /\ shellEnv.ENV_FILE = <<".env", ".prod">>)
              => dotenvPath.options.path = <<".env", ".prod">>
        /\ (Has(shellEnv, "ENV_FILE") /\ shellEnv.ENV_FILE # <<>>)
              => dotenvPath.options.path = shellEnv.ENV_FILE
        /\ ~Has(shellEnv, "ENV_FILE")
              => dotenvPath.options.path = <<".env", ".dev">>
        /\ (Has(shellEnv, "ENV_FILE") /\ shellEnv.ENV_FILE = <<>>)
              => dotenvPath.options.path = <<".env", ".dev">>
        /\ dotenvPath.options.path = <<".env", ".prod">>
              => (Has(shellEnv, "ENV_FILE")
                  /\ shellEnv.ENV_FILE = <<".env", ".prod">>)

DotenvFellBackOnEmpty ==
    /\ dotenvPath.kind = "loaded"
    /\ Has(shellEnv, "ENV_FILE") /\ shellEnv.ENV_FILE = <<>>
    /\ dotenvPath.options.path = EnvDev

-----------------------------------------------------------------------------
(* Mobile: user.api.ts and the shared authApi *)

\* issues of a nested object, their paths prefixed with its key
Nested(k, issues) ==
    [i \in 1..Len(issues) |->
        [path |-> <<k>> \o issues[i].path, code |-> issues[i].code]]

\* z.object({ success: z.boolean(), data: userSchema })
getUserResponseSchema(v) ==
    LET issues ==
            RequiredOr(v, "success", <<>>)
            \o RequiredOr(v, "data",
                          IF MobileUserSchema(v.data).success THEN <<>>
                          ELSE Nested("data", MobileUserSchema(v.data).error.issues))
    IN  IF issues = <<>>
        THEN Ok([success |-> v.success, data |-> MobileUserSchema(v.data).data])
        ELSE Fail(issues)

\* z.object({ email: z.string().email(), password: z.string().min(8) })
loginSchema(v) ==
    Result(v, {"email", "password"},
           RequiredOr(v, "email", EmailIssues(v.email))
           \o RequiredOr(v, "password",
                         IF Len(v.password) < PasswordMin
                         THEN Issue(<<"password">>, "too_small") ELSE <<>>))

LoginUserKeys == {"id", "email", "name"}

\* z.object({ accessToken, refreshToken, user: z.object({id, email, name}) }),
\* all of them z.string()
loginResponseSchema(v) ==
    LET userIssues(u) ==
            RequiredOr(u, "id", <<>>) \o RequiredOr(u, "email", <<>>)
            \o RequiredOr(u, "name", <<>>)
        issues ==
            RequiredOr(v, "accessToken", <<>>)
            \o RequiredOr(v, "refreshToken", <<>>)
            \o RequiredOr(v, "user", Nested("user", userIssues(v.user)))
    IN  IF issues = <<>>
        THEN Ok([accessToken |-> v.accessToken, refreshToken |-> v.refreshToken,
                 user |-> Strip(v.user, LoginUserKeys)])
        ELSE Fail(issues)

Returned(v) == [kind |-> "returned", value |-> v]
Threw(e)    == [kind |-> "threw", error |-> e]
ZodError(r) == [name |-> "ZodError", issues |-> r.error.issues]

\* await axios.get(`${API_URL}/users/${id}`) in getUser and getUserSafe
SendGet ==
    /\ pc = "start"
    /\ call.fn \in {"getUser", "getUserSafe"}
    /\ requests' = Append(requests, [method |-> "GET",
                                     url |-> <<"API_URL", "/users/", call.id>>])
    /\ pc' = "awaiting"
    /\ UNCHANGED <<call, httpResponse, outcome, console, pipeVars, testVars,
                   envVars, babelVars, formVars>>

\* a bug login could have: the request sent with the raw input
LoginStartUnvalidated(email, password) ==
    [send |-> TRUE, data |-> [email |-> email, password |-> password]]

\* loginSchema.parse({ email, password }), which throws before axios.post runs
LoginStart(email, password) ==
    LET r == loginSchema([email |-> email, password |-> password])
    IN  IF r.success THEN [send |-> TRUE, data |-> r.data]
        ELSE [send |-> FALSE, error |-> ZodError(r)]

\* authApi.login up to its await
SendLogin ==
    /\ pc = "start"
    /\ call.fn = "login"
    /\ LET s == LoginStart(call.email, call.password)
       IN  IF s.send
           THEN /\ requests' = Append(requests, [method |-> "POST",
                                                 url |-> <<"/auth/login">>,
                                                 data |-> s.data])
                /\ pc' = "awaiting"
                /\ outcome' = outcome
           ELSE /\ requests' = requests
                /\ pc' = "done"
                /\ outcome' = Threw(s.error)
    /\ UNCHANGED <<call, httpResponse, console, pipeVars, testVars, envVars,
                   babelVars, formVars>>

\* getUser after its await: the rejection of axios.get propagates, and so does
\* the ZodError of getUserResponseSchema.parse
GetUserResume(res) ==
    IF res.kind = "error" THEN Threw([name |-> "AxiosError"])
    ELSE LET r == getUserResponseSchema(res.data)
         IN  IF r.success THEN Returned(r.data) ELSE Threw(ZodError(r))

\* a bug getUserSafe could have: the catch block logs and returns
GetUserSafeSwallowing(res) ==
    IF res.kind = "error"
    THEN [outcome |-> Returned(<<>>), log |-> <<"API call failed">>]
    ELSE LET r == getUserResponseSchema(res.data)
         IN  IF r.success THEN [outcome |-> Returned(r.data), log |-> <<>>]
             ELSE [outcome |-> Returned(<<>>),
                   log |-> <<"API response validation failed",
                             "API call failed">>]

\* getUserSafe after its await: a failed safeParse is logged and thrown as an
\* Error inside the try block, so the catch block logs it again and rethrows
GetUserSafeResume(res) ==
    IF res.kind = "error"
    THEN [outcome |-> Threw([name |-> "AxiosError"]),
          log |-> <<"API call failed">>]
    ELSE LET r == getUserResponseSchema(res.data)
         IN  IF r.success THEN [outcome |-> Returned(r.data), log |-> <<>>]
             ELSE [outcome |-> Threw([name |-> "Error",
                                      message |-> "invalid API response format"]),
                   log |-> <<"API response validation failed",
                             "API call failed">>]

\* login after its await: loginResponseSchema.parse(response.data)
LoginResume(res) ==
    IF res.kind = "error" THEN Threw([name |-> "AxiosError"])
    ELSE LET r == loginResponseSchema(res.data)
         IN  IF r.success THEN Returned(r.data) ELSE Threw(ZodError(r))


\* the promise of axios.get settles and getUser runs on
GetUserResponse(res) ==
    /\ pc = "awaiting"
    /\ call.fn = "getUser"
    /\ httpResponse' = res
    /\ outcome' = GetUserResume(res)
    /\ pc' = "done"
    /\ UNCHANGED <<call, requests, console, pipeVars, testVars, envVars,
                   babelVars, formVars>>

\* the promise of axios.get settles and getUserSafe runs on
GetUserSafeResponse(res) ==
    /\ pc = "awaiting"
    /\ call.fn = "getUserSafe"
    /\ httpResponse' = res
    /\ outcome' = GetUserSafeResume(res).outcome
    /\ console' = console \o GetUserSafeResume(res).log
    /\ pc' = "done"
    /\ UNCHANGED <<call, requests, pipeVars, testVars, envVars, babelVars,
                   formVars>>

\* the promise of axios.post settles and login runs on
LoginResponse(res) ==
    /\ pc = "awaiting"
    /\ call.fn = "login"
    /\ httpResponse' = res
    /\ outcome' = LoginResume(res)
    /\ pc' = "done"
    /\ UNCHANGED <<call, requests, console, pipeVars, testVars, envVars,
                   babelVars, formVars>>

\* axios rejects (no network, a status outside 2xx) or resolves with a body
Responses(bodies) ==
    {[kind |-> "error"]} \cup {[kind |-> "ok", data |-> b] : b \in bodies}

GetUserBodies ==
    {[k \in K |-> IF k = "success" THEN b ELSE u] :
        K \in SUBSET {"success", "data"}, b \in BOOLEAN, u \in UserObjects}

InitUserApi ==
    /\ call \in {[fn |-> f, id |-> i] : f \in {"getUser", "getUserSafe"},
                                        i \in {"1", "2"}}
    /\ pc = "start"
    /\ requests = <<>>
    /\ httpResponse = [kind |-> "none"]
    /\ outcome = [kind |-> "pending"]
    /\ console = <<>>
    /\ IdlePipe /\ IdleTest /\ IdleEnv /\ IdleBabel /\ IdleForm

NextUserApi ==
    \/ SendGet
    \/ \E res \in Responses(GetUserBodies) : GetUserResponse(res)
    \/ \E res \in Responses(GetUserBodies) : GetUserSafeResponse(res)

SpecUserApi == InitUserApi /\ [][NextUserApi]_vars

ResponseAccepted ==
    /\ httpResponse.kind = "ok"
    /\ getUserResponseSchema(httpResponse.data).success

\* C7: getUser and getUserSafe return a value only if getUserResponseSchema
\* accepted the response body; in getUserSafe a failed HTTP call and a failed
\* validation both reach the caller as a thrown error, after being logged.
UserApiContract ==
    /\ outcome.kind = "returned" =>
          /\ ResponseAccepted
          /\ outcome.value = getUserResponseSchema(httpResponse.data).data
    /\ (pc = "done" /\ ~ResponseAccepted) =>
          /\ outcome.kind = "threw"
          /\ call.fn = "getUserSafe" =>
                (console # <<>> /\ console[Len(console)] = "API call failed")
    /\ pc # "done" => outcome.kind = "pending"

GetUserSafeRejectedBody ==
    /\ call.fn = "getUserSafe" /\ pc = "done"
    /\ httpResponse.kind = "ok" /\ ~ResponseAccepted
    /\ outcome.kind = "threw"

-----------------------------------------------------------------------------
(* authApi.login with every email over a small alphabet *)

MaxEmailLen   == 7
EmailAlphabet == {"a", "@", "."}
Emails        == Seqs(EmailAlphabet, MaxEmailLen)
MaxLoginPwLen == 9
LoginPasswords == {Rep("p", k) : k \in 0..MaxLoginPwLen}

LoginUsers ==
    {[k \in K |-> "u"] : K \in SUBSET (LoginUserKeys \cup {"password"})}
LoginBodies ==
    {[k \in K |-> IF k = "user" THEN u ELSE "t"] :
        K \in SUBSET {"accessToken", "refreshToken", "user", "expiresIn"},
        u \in LoginUsers}

InitLogin ==
    /\ call \in {[fn |-> "login", email |-> e, password |-> p] :
                    e \in Emails, p \in LoginPasswords}
    /\ pc = "start"
    /\ requests = <<>>
    /\ httpResponse = [kind |-> "none"]
    /\ outcome = [kind |-> "pending"]
    /\ console = <<>>
    /\ IdlePipe /\ IdleTest /\ IdleEnv /\ IdleBabel /\ IdleForm

NextLogin ==
    \/ SendLogin
    \/ \E res \in Responses(LoginBodies) : LoginResponse(res)

SpecLogin == InitLogin /\ [][NextLogin]_vars

\* C8: login validates {email, password} with loginSchema first, sends the
\* POST to /auth/login only after that succeeded, and returns only after
\* loginResponseSchema accepted the response body; with a malformed email or
\* a password of fewer than 8 characters no request is ever sent.
LoginOrder ==
    /\ requests # <<>> =>
          /\ IsEmail(call.email) /\ Len(call.password) >= 8
          /\ requests = <<[method |-> "POST", url |-> <<"/auth/login">>,
                           data |-> [email |-> call.email,
                                     password |-> call.password]]>>
    /\ (~IsEmail(call.email) \/ Len(call.password) < 8) =>
          (requests = <<>> /\ pc \in {"start", "done"})
    /\ httpResponse.kind # "none" => requests # <<>>
    /\ outcome.kind = "returned" =>
          /\ requests # <<>>
          /\ httpResponse.kind = "ok"
          /\ loginResponseSchema(httpResponse.data).success
          /\ outcome.value = loginResponseSchema(httpResponse.data).data
    /\ (pc = "done" /\ requests = <<>>) =>
          (outcome.kind = "threw" /\ outcome.error.name = "ZodError")

LoginRefusedBeforeRequest ==
    /\ pc = "done" /\ requests = <<>>
    /\ IsEmail(call.email) /\ Len(call.password) = 7


-----------------------------------------------------------------------------
(* Mobile: SignupScreen.tsx *)

\* the fields the screen renders a Controller and a TextInput for
RenderedInputs == {"email", "password"}

\* z.object({email, password, passwordConfirm}).refine(password ===
\* passwordConfirm): a missing field aborts the object, and the refinement
\* runs only on an object that was not aborted
signupSchema(v) ==
    LET keys == {"email", "password", "passwordConfirm"}
        base == RequiredOr(v, "email", EmailIssues(v.email))
                \o RequiredOr(v, "password",
                              IF Len(v.password) < PasswordMin
                              THEN Issue(<<"password">>, "too_small") ELSE <<>>)
                \o RequiredOr(v, "passwordConfirm", <<>>)
        aborted == ~(keys \subseteq DOMAIN v)
        refined == IF aborted \/ v.password = v.passwordConfirm THEN <<>>
                   ELSE Issue(<<"passwordConfirm">>, "custom")
    IN  Result(v, keys, base \o refined)

\* zodResolver(signupSchema): the form's errors object, keyed by field
ErrorFields(v) ==
    IF signupSchema(v).success THEN {}
    ELSE {signupSchema(v).error.issues[i].path[1] :
             i \in 1..Len(signupSchema(v).error.issues)}

\* onChangeText={onChange}: the field takes the text; once the form has been
\* submitted the field is validated again on every change
ChangeText(field, text) ==
    /\ submitCount >= 0
    /\ field \in RenderedInputs
    /\ formValues' = [k \in DOMAIN formValues \cup {field} |->
                         IF k = field THEN text ELSE formValues[k]]
    /\ formErrors' = IF submitCount = 0 THEN formErrors
                     ELSE (formErrors \ {field})
                          \cup (ErrorFields(formValues') \cap {field})
    /\ UNCHANGED <<submitCount, onSubmitCalls, pipeVars, testVars, envVars,
                   console, babelVars, apiVars>>

MaxSubmits == 2

\* onPress={handleSubmit(onSubmit)}: the resolver runs on the form's values
\* and onSubmit is called with its data only when it found no error
PressSignup ==
    /\ submitCount >= 0
    /\ submitCount < MaxSubmits
    /\ submitCount' = submitCount + 1
    /\ formErrors' = ErrorFields(formValues)
    /\ onSubmitCalls' = IF signupSchema(formValues).success
                        THEN Append(onSubmitCalls, signupSchema(formValues).data)
                        ELSE onSubmitCalls
    /\ UNCHANGED <<formValues, pipeVars, testVars, envVars, console,
                   babelVars, apiVars>>

SampleTexts == {Email_ok, Email_noAt, Email_shortTld, <<>>,
                Rep("p", PasswordMin - 1), Rep("p", PasswordMin)}

InitSignup ==
    /\ formValues = <<>>
    /\ formErrors = {}
    /\ submitCount = 0
    /\ onSubmitCalls = <<>>
    /\ console = <<>>
    /\ IdlePipe /\ IdleTest /\ IdleEnv /\ IdleBabel /\ IdleApi

NextSignup ==
    \/ \E field \in RenderedInputs, text \in SampleTexts : ChangeText(field, text)
    \/ PressSignup

SpecSignup == InitSignup /\ [][NextSignup]_vars

TypedValidSignup ==
    /\ Has(formValues, "email") /\ IsEmail(formValues.email)
    /\ Has(formValues, "password") /\ Len(formValues.password) >= 8

\* C9: pressing the sign-up button after a well-formed email and a password
\* of at least 8 characters were typed invokes onSubmit with the form data,
\* and onSubmit is only ever invoked with data signupSchema accepts.
SignupSubmitsValidForm ==
    [][(PressSignup /\ TypedValidSignup)
          => (/\ Len(onSubmitCalls') = Len(onSubmitCalls) + 1
              /\ signupSchema(onSubmitCalls'[Len(onSubmitCalls')]).success)]_vars

=============================================================================
